---- MODULE Spec2Model ----
(***************************************************************************)
(* joutvhu/publish-android: one run of the action (src/publish-android.ts)  *)
(* from reading the action inputs (src/io-helper.ts getInputs) through the  *)
(* Google Play publishing workflow (src/google-apis.ts uploadToPlayStore).  *)
(*                                                                         *)
(* Every remote call (an awaited androidPublisher.* call) is one action:    *)
(* the action chooses the remote's answer, appends the call to `calls`,     *)
(* and runs the code up to the next awaited remote call.  A throw runs the  *)
(* catch and finally blocks of run() in the same step.                      *)
(*                                                                         *)
(* Optional values are sequences of length 0 or 1: <<>> is undefined/null,  *)
(* <<v>> is the value v.  Fractions are counted in hundredths.              *)
(***************************************************************************)
EXTENDS Integers, Sequences, FiniteSets, TLC

VARIABLES
    config,        \* the action inputs as the workflow file gives them (core.getInput)
    fs,            \* paths that exist on disk
    tree,          \* what is on disk at and under the debugSymbols directory
    whatsNew,      \* the names of the entries of the whatsNewDirectory
    packager,      \* createDebugSymbolZipFile taken call by call: its position, the
                   \* loops of zipFileAddDirectory in progress, the archive so far
    inputs,        \* run(): `inputs`, <<>> until getInputs has returned
    pc,            \* position of run(): the next awaited step
    calls,         \* remote calls issued so far (the requests), in order
    lastAnswer,    \* what the remote answered to the last call, <<>> before any
    store,         \* the remote's side: the artifacts it accepted and what it assigned
    appEditId,     \* uploadToPlayStore: `appEditId`
    fileIndex,     \* position of the for-of loop over inputs.releaseFiles
    result,        \* uploadRelease: `result.versionCode` of the file being processed
    versionCodes,  \* uploadReleaseFiles: `versionCodes`
    downloadUrls,  \* uploadToPlayStore: `downloadUrls`
    exported,      \* core.exportVariable: environment variables exported so far
    outputs,       \* core.setOutput: <<>> until setOutputs ran
    failed,        \* core.setFailed: <<>> or <<message>>
    unhandled      \* an error that escaped run(): <<>> or <<message>>

vars == <<config, fs, tree, whatsNew, packager, inputs, pc, calls, lastAnswer, store, appEditId, fileIndex, result,
          versionCodes, downloadUrls, exported, outputs, failed, unhandled>>

(***************************************************************************)
(* Bounds of the model.                                                    *)
(***************************************************************************)
MaxFiles == 2          \* longest list of release files the glob returns
MaxVersionCode == 2    \* version codes the store assigns are 1..MaxVersionCode

None == <<>>
Some(v) == <<v>>

(***************************************************************************)
(* File names are sequences of characters, so that endsWith is computed.   *)
(***************************************************************************)
ApkSuffix == <<".", "a", "p", "k">>
AabSuffix == <<".", "a", "a", "b">>
ApkFile == <<"a">> \o ApkSuffix
AabFile == <<"b">> \o AabSuffix
OtherFile == <<"c">> \o ApkSuffix \o <<".", "z">>
FileNames == {ApkFile, AabFile, OtherFile}

\* the suffix looked for anywhere in the name
endsWith_includes(str, suffix) ==
    \E i \in 1..Len(str) :
        /\ i + Len(suffix) - 1 <= Len(str)
        /\ SubSeq(str, i, i + Len(suffix) - 1) = suffix

endsWith(str, suffix) ==
    /\ Len(str) >= Len(suffix)
    /\ SubSeq(str, Len(str) - Len(suffix) + 1, Len(str)) = suffix

RECURSIVE SeqsUpTo(_, _)
SeqsUpTo(S, n) ==
    IF n = 0 THEN {<<>>}
    ELSE LET shorter == SeqsUpTo(S, n - 1)
         IN  shorter \cup {Append(s, x) : s \in shorter, x \in S}

NoDup(s) == \A i, j \in 1..Len(s) : i # j => s[i] # s[j]

\* what fast-glob can return: lists of distinct paths, possibly empty
GlobResults == {s \in SeqsUpTo(FileNames, MaxFiles) : NoDup(s)}

(***************************************************************************)
(* The action inputs (action.yml).  A numeric input is blank, text that     *)
(* parseInt/parseFloat turn into NaN, or a number.  packageName,            *)
(* releaseName and changesNotSentForReview are passed through to the        *)
(* remote calls unchanged and decide nothing: they are left out.            *)
(***************************************************************************)
Blank == [kind |-> "blank", v |-> 0]
Text == [kind |-> "text", v |-> 0]
Number(n) == [kind |-> "number", v |-> n]

RawJson == "{json}"
ServiceAccountJsons == {"", "key.json", RawJson}
ReleaseFileInputs == {None} \cup {Some(g) : g \in GlobResults}
Tracks == {"internalsharing", "production"}
Priorities == {Number(0), Number(6)}
UserFractions == {Blank, Text, Number(25), Number(101)}
StatusInputs == {"completed", "draft", "halted", "inProgress", "", "paused"}
WhatsNewDirectories == {"", "whatsnew", "nowhere"}
MappingFiles == {"", "mapping.txt", "nomapping.txt"}
ExistingEditIds == {"", "edit0"}
DebugSymbolsInputs == {"", "symbols.zip", "symbols"}

\* paths present in the workspace when the run starts
ExistingPaths == {"whatsnew", "mapping.txt", "symbols.zip", "symbols"}
Directories == {"whatsnew", "symbols"}
existsSync(disk, path) == path \in disk
\* the path never taken for a directory
isDirectory_never(path) == FALSE

isDirectory(path) == path \in Directories

ServiceAccountFile == "./.service-account.google.json"
CleanupFile == "./.google-service-account.json"

Configs ==
    [serviceAccountJson : ServiceAccountJsons,
     releaseFile : ReleaseFileInputs,
     track : Tracks,
     inAppUpdatePriority : Priorities,
     userFraction : UserFractions,
     status : StatusInputs,
     whatsNewDirectory : WhatsNewDirectories,
     mappingFile : MappingFiles,
     existingEditId : ExistingEditIds,
     debugSymbols : DebugSymbolsInputs]

\* the values action.yml declares as defaults (blank where it declares none)
DefaultConfig ==
    [serviceAccountJson |-> "key.json",
     releaseFile |-> Some(<<AabFile>>),
     track |-> "production",
     inAppUpdatePriority |-> Number(0),
     userFraction |-> Blank,
     status |-> "completed",
     whatsNewDirectory |-> "",
     mappingFile |-> "",
     existingEditId |-> "",
     debugSymbols |-> ""]

isNotBlank(raw) == raw.kind # "blank"

getIntegerInput(raw) ==
    IF isNotBlank(raw) /\ raw.kind = "number" THEN Some(raw.v) ELSE None

getFloatInput(raw) ==
    IF isNotBlank(raw) /\ raw.kind = "number" THEN Some(raw.v) ELSE None

\* an Error: its message text and what the message names (a sequence of strings)
Msg(text, about) == [text |-> text, about |-> about]

(***************************************************************************)
(* getInputs: the checks in the order of the code; the first that fails     *)
(* throws.  FailStage is 0 when none fails.                                 *)
(***************************************************************************)
priorityOutOfRange(c) ==
    LET p == getIntegerInput(c.inAppUpdatePriority)
    IN  p # None /\ (p[1] < 0 \/ p[1] > 5)

fractionOutOfRange(c) ==
    LET f == getFloatInput(c.userFraction)
    IN  f # None /\ (f[1] < 0 \/ f[1] > 100)

\* 'draft' moved out of the statuses that refuse a userFraction
statusError_draftAllowsFraction(c) ==
    LET userFraction == getFloatInput(c.userFraction)
    IN  CASE c.status = "completed" ->
               IF userFraction # None
               THEN Some(Msg("Status does not support 'userFraction'", <<c.status>>))
               ELSE None
          [] c.status \in {"halted", "inProgress"} ->
               IF userFraction = None
               THEN Some(Msg("Status requires a 'userFraction' to be set", <<c.status>>))
               ELSE None
          [] c.status = "draft" -> None
          [] OTHER -> Some(Msg("Invalid status provided!", <<c.status>>))

\* the test of 'halted' and 'inProgress' left out
statusError_fractionNotRequired(c) ==
    LET userFraction == getFloatInput(c.userFraction)
    IN  CASE c.status \in {"completed", "draft"} ->
               IF userFraction # None
               THEN Some(Msg("Status does not support 'userFraction'", <<c.status>>))
               ELSE None
          [] c.status \in {"halted", "inProgress"} -> None
          [] OTHER -> Some(Msg("Invalid status provided!", <<c.status>>))

statusError(c) ==
    LET userFraction == getFloatInput(c.userFraction)
    IN  CASE c.status \in {"completed", "draft"} ->
               IF userFraction # None
               THEN Some(Msg("Status does not support 'userFraction'", <<c.status>>))
               ELSE None
          [] c.status \in {"halted", "inProgress"} ->
               IF userFraction = None
               THEN Some(Msg("Status requires a 'userFraction' to be set", <<c.status>>))
               ELSE None
          [] OTHER -> Some(Msg("Invalid status provided!", <<c.status>>))

FailStage(c, disk) ==
    CASE c.serviceAccountJson = "" -> 1
      [] c.releaseFile = None \/ c.releaseFile = Some(<<>>) -> 2
      [] priorityOutOfRange(c) -> 3
      [] fractionOutOfRange(c) -> 4
      [] statusError(c) # None -> 5
      [] /\ c.whatsNewDirectory # ""
         /\ ~existsSync(disk, c.whatsNewDirectory) -> 6
      [] c.mappingFile # "" /\ ~existsSync(disk, c.mappingFile) -> 7
      [] OTHER -> 0

getInputsError(c, disk) ==
    LET stage == FailStage(c, disk)
    IN  CASE stage = 1 ->
               Some(Msg("You must provide one of 'serviceAccountJson' to use this action", <<>>))
          [] stage = 2 ->
               IF c.releaseFile = None
               THEN Some(Msg("You must provide either 'releaseFile' in your configuration.", <<>>))
               ELSE Some(Msg("Unable to find any release file", <<>>))
          [] stage = 3 ->
               Some(Msg("inAppUpdatePriority must be between 0 and 5, inclusive-inclusive", <<>>))
          [] stage = 4 ->
               Some(Msg("A provided userFraction must be between 0.0 and 1.0, inclusive-inclusive", <<>>))
          [] stage = 5 -> statusError(c)
          [] stage = 6 ->
               Some(Msg("Unable to find 'whatsnew' directory", <<c.whatsNewDirectory>>))
          [] stage = 7 ->
               Some(Msg("Unable to find 'mappingFile'", <<c.mappingFile>>))
          [] OTHER -> None

\* the PublishInputs getInputs returns when no check fails
getInputsValue(c) ==
    [authClient |-> None,
     createdGoogleCredentialsFile |-> (c.serviceAccountJson = RawJson),
     releaseFiles |-> c.releaseFile[1],
     track |-> c.track,
     inAppUpdatePriority |-> getIntegerInput(c.inAppUpdatePriority),
     userFraction |-> getFloatInput(c.userFraction),
     status |-> c.status,
     whatsNewDirectory |-> c.whatsNewDirectory,
     mappingFile |-> c.mappingFile,
     existingEditId |-> c.existingEditId,
     debugSymbols |-> c.debugSymbols]

\* writeFileSync of the raw service-account JSON, done before any later check
getInputsDisk(c, disk) ==
    IF c.serviceAccountJson = RawJson THEN disk \cup {ServiceAccountFile} ELSE disk

(***************************************************************************)
(* getInputs reads the inputs one after the other, so an input that comes   *)
(* after the failing check is never read: such inputs are held at their     *)
(* defaults in the initial states.  The status varies with the fraction     *)
(* (stage 4) although it is read after the check of the fraction's range.   *)
(***************************************************************************)
ReadAtStage ==
    [serviceAccountJson |-> 1, releaseFile |-> 2, track |-> 3,
     inAppUpdatePriority |-> 3, userFraction |-> 4, status |-> 4,
     whatsNewDirectory |-> 6, mappingFile |-> 7, existingEditId |-> 8,
     debugSymbols |-> 8]

OnlyReadInputsVary(c, disk) ==
    LET stage == FailStage(c, disk)
    IN  stage # 0 =>
          \A field \in DOMAIN ReadAtStage :
              ReadAtStage[field] > stage => c[field] = DefaultConfig[field]

(***************************************************************************)
(* The remote store.  A call throws (the transport rejects) or returns a    *)
(* status and a body; the body's fields may be missing.                     *)
(***************************************************************************)
HttpStatuses == {0, 200, 300}
Threw == [threw |-> TRUE, status |-> 0, data |-> None]
Returned(statuses, bodies) ==
    {[threw |-> FALSE, status |-> st, data |-> d] : st \in statuses, d \in bodies}
Answers(bodies) == {Threw} \cup Returned(HttpStatuses, bodies)

EditIds == {None, Some(""), Some("edit1")}
TrackLists == {None, Some({}), Some({"beta"}), Some({"beta", "production"})}
VersionCodeAnswers == {None, Some(0)} \cup {Some(v) : v \in 1..MaxVersionCode}
DownloadUrl(n) == <<"https://play.google.com/apps/internaltest/", n>>
DownloadUrlAnswers == {None, Some(<<>>)} \cup {Some(DownloadUrl(n)) : n \in 1..MaxVersionCode}

\* a request that leaves the edit id out
Call_withoutEditId(op, editId, arg) == [op |-> op, editId |-> None, arg |-> arg]

Call(op, editId, arg) == [op |-> op, editId |-> editId, arg |-> arg]

\* issue the request and receive `answer`
Remote(op, editId, arg, answer) ==
    /\ calls' = Append(calls, Call(op, editId, arg))
    /\ lastAnswer' = Some(answer)

\* issue an upload request: the remote keeps the artifact when it assigns it something
RemoteUpload(op, editId, releaseFile, answer, missing) ==
    /\ Remote(op, editId, releaseFile, answer)
    /\ store' = IF answer.threw \/ answer.data \in missing
                THEN store
                ELSE Append(store, [file |-> releaseFile, assigned |-> answer.data[1]])

NoRemote == UNCHANGED <<calls, lastAnswer, store>>

TransportError(op) == Msg("request failed", <<op>>)

isSuccessStatusCode(statusCode) ==
    IF statusCode = 0 THEN FALSE
    ELSE statusCode >= 200 /\ statusCode < 300

(***************************************************************************)
(* The tests the code makes on what it was given.                           *)
(***************************************************************************)
\* the track compared with a name that no track has
uploadToPlayStore_wrongName(inp) ==
    IF inp.track = "internal-sharing"
    THEN "uploadInternalSharingRelease"
    ELSE "getOrCreateEdit"

\* uploadToPlayStore: the step it starts with, by the track
uploadToPlayStore(inp) ==
    IF inp.track = "internalsharing"
    THEN "uploadInternalSharingRelease"
    ELSE "getOrCreateEdit"

\* the supplied edit id ignored
hasExistingEditId_never(inp) == FALSE

\* getOrCreateEdit: if (inputs.existingEditId)
hasExistingEditId(inp) == inp.existingEditId # ""

\* the new edit's id not tested
editHasNoId_unchecked(data) == FALSE

\* getOrCreateEdit: !result.data.id
editHasNoId(data) == data \in {None, Some("")}

\* any list of tracks taken to hold the track
includes_anything(allTrackNames, track) == TRUE

\* validateSelectedTrack: allTrackNames.includes(inputs.track)
includes(allTrackNames, track) == track \in allTrackNames

\* only a missing version code tested, not a zero one
hasNoVersionCode_nullOnly(data) == data = None

\* uploadRelease: !result.versionCode
hasNoVersionCode(data) == data \in {None, Some(0)}

\* only a missing download URL tested, not an empty one
hasNoDownloadUrl_nullOnly(data) == data = None

\* uploadInternalSharingRelease: !res.downloadUrl
hasNoDownloadUrl(data) == data \in {None, Some(<<>>)}

\* the committed edit's id not tested
commitHasNoId_unchecked(data) == FALSE

\* uploadToPlayStore: res.data.id == null
commitHasNoId(data) == data = None

\* the mapping file left out: the diagnostic symbols are attached right away
attachTo_withoutMapping(versionCode) == "uploadDebugSymbolsFile"

\* uploadRelease: after the upload, await uploadMappingFile(appEditId, result.versionCode, inputs)
attachTo(versionCode) == "uploadMappingFile"

\* unshift in place of push
push_front(list, x) == <<x>> \o list

\* versionCodes.push / downloadUrls.push
push(list, x) == Append(list, x)

(***************************************************************************)
(* The release notes.  The names of the directory's entries are sequences  *)
(* of characters, so that the two regular expressions are computed.  The    *)
(* list returned is kept as the set of its entries: every entry differs     *)
(* from the others by its text.                                             *)
(***************************************************************************)
WhatsNewPrefix == <<"w", "h", "a", "t", "s", "n", "e", "w", "-">>
WordChars == {"a", "e", "f", "h", "n", "o", "r", "s", "t", "w", "x", "S", "U"}
NoteNames ==
    {WhatsNewPrefix \o <<"e", "n", "-", "U", "S">>,
     WhatsNewPrefix \o <<"f", "r">>,
     WhatsNewPrefix,
     WhatsNewPrefix \o <<"-">>,
     <<"x">> \o WhatsNewPrefix \o <<"f", "r">>,
     <<"n", "o", "t", "e", "s">>}
DefaultWhatsNew ==
    {WhatsNewPrefix \o <<"e", "n", "-", "U", "S">>, WhatsNewPrefix \o <<"f", "r">>}

\* the places where 'whatsnew-' starts in the name
occurrences(value) ==
    {i \in 1..Len(value) :
        /\ i + Len(WhatsNewPrefix) - 1 <= Len(value)
        /\ SubSeq(value, i, i + Len(WhatsNewPrefix) - 1) = WhatsNewPrefix}

\* \b: a word character on exactly one side of the place after value[j]
wordBoundary(value, j) ==
    LET before == j >= 1 /\ value[j] \in WordChars
        after == j < Len(value) /\ value[j + 1] \in WordChars
    IN  before # after

\* /whatsnew-((.*-.*)|(.*))\b/.test(value): 'whatsnew-' anywhere in the name,
\* then any characters up to a word boundary
test(value) ==
    \E i \in occurrences(value) :
        \E j \in (i + Len(WhatsNewPrefix) - 1)..Len(value) : wordBoundary(value, j)

\* value.match(/whatsnew-(?<local>(.*-.*)|(.*))/): the leftmost 'whatsnew-',
\* and in matches[1] everything after it (both alternatives are greedy)
match(value) ==
    IF occurrences(value) = {} THEN None
    ELSE LET i == CHOOSE k \in occurrences(value) : \A l \in occurrences(value) : k <= l
             local == SubSeq(value, i + Len(WhatsNewPrefix), Len(value))
         IN  Some(<<SubSeq(value, i, Len(value)), local,
                    IF "-" \in {local[k] : k \in 1..Len(local)} THEN Some(local) ELSE None,
                    IF "-" \in {local[k] : k \in 1..Len(local)} THEN None ELSE Some(local)>>)

\* readFileSync(path.join(whatsNewDir, value), 'utf-8')
noteText(whatsNewDir, value) == <<"text of", whatsNewDir, value>>

\* undefined when no directory is configured, else the entries of the files
\* that pass the filter and whose match has four elements
readLocalizedReleaseNotes(whatsNewDir) ==
    IF whatsNewDir # ""
    THEN Some({[language |-> match(value)[1][2], text |-> noteText(whatsNewDir, value)] :
                 value \in {v \in whatsNew :
                              /\ test(v)
                              /\ match(v) # None
                              /\ Len(match(v)[1]) = 4}})
    ELSE None

(***************************************************************************)
(* The debug symbols directory and its archive.  What is on disk is a set   *)
(* of entries, a path (the sequence of its names) and a kind; an archive is *)
(* the set of the members of a JSZip object, a member name being the        *)
(* sequence of the names and "/" it is made of.                             *)
(***************************************************************************)
MaxDepth == 2          \* levels of entries below the debugSymbols directory
EntryNames == {"a.txt", "b.txt", "sub"}
DirectoryNames == {"sub"}     \* the names that directories are given
SymbolsRoot == <<"symbols">>

Entry(path, kind) == [path |-> path, kind |-> kind]

RECURSIVE TreesUnder(_, _, _)
\* the contents a directory `dir` can have, `depth` levels deep, with names from `names`
TreesUnder(dir, names, depth) ==
    IF depth = 0 \/ names = {} THEN {{}}
    ELSE LET name == CHOOSE n \in names : TRUE
             path == Append(dir, name)
             ofName == {{}, {Entry(path, "file")}}
                       \cup (IF name \in DirectoryNames
                             THEN {{Entry(path, "dir")} \cup under :
                                     under \in TreesUnder(path, EntryNames, depth - 1)}
                             ELSE {})
         IN  {one \cup others : one \in ofName,
                                others \in TreesUnder(dir, names \ {name}, depth)}

Trees == {{Entry(SymbolsRoot, "dir")} \cup under :
            under \in TreesUnder(SymbolsRoot, EntryNames, MaxDepth)}

DefaultTree ==
    {Entry(SymbolsRoot, "dir"),
     Entry(<<"symbols", "a.txt">>, "file"),
     Entry(<<"symbols", "sub">>, "dir"),
     Entry(<<"symbols", "sub", "b.txt">>, "file")}

\* path.join(rootPath, dirPath): '.' adds nothing
join(rootPath, dirPath) ==
    IF dirPath = "." THEN rootPath ELSE Append(rootPath, dirPath)

\* statSync in the place of lstatSync: a link to a directory counts as a directory
lstatIsDirectory_followsLinks(disk, path) ==
    Entry(path, "dir") \in disk \/ Entry(path, "link") \in disk

\* lstatSync(path).isDirectory()
lstatIsDirectory(disk, path) == Entry(path, "dir") \in disk

\* readdirSync(path): the names of the entries of the directory
readdirSync(disk, path) ==
    {e.path[Len(e.path)] :
        e \in {x \in disk : /\ Len(x.path) = Len(path) + 1
                            /\ SubSeq(x.path, 1, Len(path)) = path}}

\* JSZip: root.file(name, data) adds the member root.root + name
zipFile(files, root, name, data) ==
    files \cup {[name |-> Append(root, name), dir |-> FALSE, data |-> data]}

\* JSZip: root.folder(name) adds the folder root.root + name + "/" and returns
\* the object whose root it is
zipFolderRoot(root, name) == root \o <<name, "/">>
zipFolder(files, root, name) ==
    files \cup {[name |-> zipFolderRoot(root, name), dir |-> TRUE, data |-> <<>>]}

RECURSIVE zipFileAddDirectory(_, _, _, _, _, _)
RECURSIVE zipFileAddEntries(_, _, _, _, _)

\* every directory gets a folder of its own, the root included
zipFileAddDirectory_rootFolder(disk, files, root, dirPath, rootPath, isRootRoot) ==
    LET newRootPath == join(rootPath, dirPath)
    IN  IF ~lstatIsDirectory(disk, newRootPath)
        THEN zipFile(files, root, dirPath, newRootPath)
        ELSE zipFileAddEntries(disk, zipFolder(files, root, dirPath),
                               zipFolderRoot(root, dirPath),
                               readdirSync(disk, newRootPath), newRootPath)

\* zipFileAddDirectory(root, dirPath, rootPath, isRootRoot): `files` are the
\* members of the archive so far and `root` the prefix of the JSZip object.
\* The whole recursion at once, on a tree of files and directories (every
\* read succeeds); SpecPackager takes it call by call, links included.
zipFileAddDirectory(disk, files, root, dirPath, rootPath, isRootRoot) ==
    LET newRootPath == join(rootPath, dirPath)
    IN  IF ~lstatIsDirectory(disk, newRootPath)
        THEN zipFile(files, root, dirPath, newRootPath)
        ELSE zipFileAddEntries(disk,
                               IF isRootRoot THEN files
                               ELSE zipFolder(files, root, dirPath),
                               IF isRootRoot THEN root
                               ELSE zipFolderRoot(root, dirPath),
                               readdirSync(disk, newRootPath), newRootPath)

\* the loop over the entries of a directory
zipFileAddEntries(disk, files, root, names, rootPath) ==
    IF names = {} THEN files
    ELSE LET underPath == CHOOSE n \in names : TRUE
         IN  zipFileAddEntries(
                 disk,
                 zipFileAddDirectory(disk, files, root, underPath, rootPath, FALSE),
                 root, names \ {underPath}, rootPath)

createDebugSymbolZipFile(disk, debugSymbolsPath) ==
    zipFileAddDirectory(disk, {}, <<>>, ".", debugSymbolsPath, TRUE)

\* the packager when no call of it is under way
NotPackaging == [pc |-> "idle", stack |-> <<>>, files |-> {}, visited |-> <<>>, entered |-> 0]

(***************************************************************************)
(* run(): the catch block reports the error with core.setFailed, and the    *)
(* finally block removes the credentials file when `inputs` says getInputs  *)
(* created one.                                                             *)
(***************************************************************************)
Finally(inp, disk) ==
    IF inp # None /\ inp[1].createdGoogleCredentialsFile
    THEN IF CleanupFile \in disk
         THEN /\ fs' = disk \ {CleanupFile}
              /\ unhandled' = None
         ELSE /\ fs' = disk
              /\ unhandled' = Some(Msg("ENOENT: no such file or directory, unlink", <<CleanupFile>>))
    ELSE /\ fs' = disk
         /\ unhandled' = None

\* an Error thrown inside the try block of run()
Throw(msg, inp, disk) ==
    /\ failed' = Some(msg)
    /\ outputs' = outputs
    /\ pc' = "done"
    /\ Finally(inp, disk)

setOutputs(urls) ==
    Some([internalSharingDownloadUrls |-> urls,
          internalSharingDownloadUrl |->
              IF Len(urls) > 0 THEN Some(urls[Len(urls)]) ELSE None])

\* uploadToPlayStore returned `urls`
Return(urls, inp, disk) ==
    /\ outputs' = setOutputs(urls)
    /\ failed' = failed
    /\ pc' = "done"
    /\ Finally(inp, disk)

Continue(next) ==
    /\ pc' = next
    /\ UNCHANGED <<fs, outputs, failed, unhandled>>

Init ==
    /\ fs = ExistingPaths
    /\ tree = DefaultTree
    /\ whatsNew = DefaultWhatsNew
    /\ packager = NotPackaging
    /\ config \in {c \in Configs : OnlyReadInputsVary(c, ExistingPaths)}
    /\ inputs = None
    /\ pc = "getInputs"
    /\ calls = <<>>
    /\ lastAnswer = None
    /\ store = <<>>
    /\ appEditId = None
    /\ fileIndex = 1
    /\ result = None
    /\ versionCodes = <<>>
    /\ downloadUrls = <<>>
    /\ exported = [INTERNAL_SHARING_DOWNLOAD_URL |-> None,
                   INTERNAL_SHARING_DOWNLOAD_URLS |-> None]
    /\ outputs = None
    /\ failed = None
    /\ unhandled = None

getInputs ==
    /\ pc = "getInputs"
    /\ LET error == getInputsError(config, fs)
           disk == getInputsDisk(config, fs)
       IN  IF error # None
           THEN /\ Throw(error[1], None, disk)
                /\ inputs' = inputs
           ELSE /\ inputs' = Some(getInputsValue(config))
                /\ fs' = disk
                /\ pc' = "getClient"
                /\ UNCHANGED <<outputs, failed, unhandled>>
    /\ NoRemote
    /\ UNCHANGED <<tree, whatsNew, packager, config, appEditId, fileIndex, result, versionCodes,
                   downloadUrls, exported>>

\* run(): inputs.authClient = await googleAuth.getClient()
getClient ==
    /\ pc = "getClient"
    /\ \E ok \in BOOLEAN :
         IF ok
         THEN /\ inputs' = Some([inputs[1] EXCEPT !.authClient = Some("client")])
              /\ Continue(uploadToPlayStore(inputs[1]))
         ELSE /\ Throw(Msg("Could not load the default credentials", <<>>), inputs, fs)
              /\ inputs' = inputs
    /\ NoRemote
    /\ UNCHANGED <<tree, whatsNew, packager, config, appEditId, fileIndex, result, versionCodes,
                   downloadUrls, exported>>

(***************************************************************************)
(* The changeset path of uploadToPlayStore.                                 *)
(***************************************************************************)
getOrCreateEdit ==
    /\ pc = "getOrCreateEdit"
    /\ IF hasExistingEditId(inputs[1])
       THEN /\ appEditId' = Some(inputs[1].existingEditId)
            /\ NoRemote
            /\ Continue("validateSelectedTrack")
       ELSE \E answer \in Answers(EditIds) :
              /\ Remote("edits.insert", None, None, answer)
              /\ store' = store
              /\ CASE answer.threw ->
                        /\ Throw(TransportError("edits.insert"), inputs, fs)
                        /\ appEditId' = appEditId
                   [] ~answer.threw /\ ~isSuccessStatusCode(answer.status) ->
                        /\ Throw(Msg("statusText", <<"edits.insert">>), inputs, fs)
                        /\ appEditId' = appEditId
                   [] /\ ~answer.threw
                      /\ isSuccessStatusCode(answer.status)
                      /\ editHasNoId(answer.data) ->
                        /\ Throw(Msg("New edit has no ID, cannot continue.", <<>>), inputs, fs)
                        /\ appEditId' = appEditId
                   [] OTHER ->
                        /\ appEditId' = answer.data
                        /\ Continue("validateSelectedTrack")
    /\ UNCHANGED <<tree, whatsNew, packager, config, inputs, fileIndex, result, versionCodes,
                   downloadUrls, exported>>

validateSelectedTrack ==
    /\ pc = "validateSelectedTrack"
    /\ \E answer \in Answers(TrackLists) :
         /\ Remote("edits.tracks.list", appEditId, None, answer)
         /\ store' = store
         /\ CASE answer.threw ->
                   Throw(TransportError("edits.tracks.list"), inputs, fs)
              [] ~answer.threw /\ ~isSuccessStatusCode(answer.status) ->
                   Throw(Msg("statusText", <<"edits.tracks.list">>), inputs, fs)
              [] /\ ~answer.threw
                 /\ isSuccessStatusCode(answer.status)
                 /\ answer.data = None ->
                   Throw(Msg("No tracks found, unable to validate track.", <<>>), inputs, fs)
              [] /\ ~answer.threw
                 /\ isSuccessStatusCode(answer.status)
                 /\ answer.data # None
                 /\ ~includes(answer.data[1], inputs[1].track) ->
                   Throw(Msg("Track could not be found. Available tracks are:",
                             <<inputs[1].track>>), inputs, fs)
              [] OTHER -> Continue("uploadRelease")
    /\ UNCHANGED <<tree, whatsNew, packager, config, inputs, appEditId, fileIndex, result, versionCodes,
                   downloadUrls, exported>>

\* uploadRelease up to its first attachment: classify, upload, check the version code
uploadRelease ==
    /\ pc = "uploadRelease"
    /\ LET releaseFile == inputs[1].releaseFiles[fileIndex]
           op == IF endsWith(releaseFile, ApkSuffix) THEN "edits.apks.upload"
                 ELSE "edits.bundles.upload"
       IN  IF ~endsWith(releaseFile, ApkSuffix) /\ ~endsWith(releaseFile, AabSuffix)
           THEN /\ NoRemote
                /\ Throw(Msg("is invalid", releaseFile), inputs, fs)
                /\ result' = result
           ELSE \E answer \in Answers(VersionCodeAnswers) :
                  /\ RemoteUpload(op, appEditId, releaseFile, answer, {None, Some(0)})
                  /\ CASE answer.threw ->
                            /\ Throw(TransportError(op), inputs, fs)
                            /\ result' = result
                       [] ~answer.threw /\ hasNoVersionCode(answer.data) ->
                            /\ Throw(Msg(IF op = "edits.apks.upload"
                                         THEN "Failed to upload APK."
                                         ELSE "Failed to upload bundle.", <<>>),
                                     inputs, fs)
                            /\ result' = result
                       [] OTHER ->
                            /\ result' = answer.data
                            /\ Continue(attachTo(answer.data))
    /\ UNCHANGED <<tree, whatsNew, packager, config, inputs, appEditId, fileIndex, versionCodes,
                   downloadUrls, exported>>

uploadMappingFile ==
    /\ pc = "uploadMappingFile"
    /\ IF inputs[1].mappingFile # ""
       THEN \E readable \in BOOLEAN :
              IF ~readable
              THEN /\ NoRemote
                   /\ Throw(Msg("ENOENT: no such file or directory, open",
                                <<inputs[1].mappingFile>>), inputs, fs)
              ELSE \E answer \in Answers({None}) :
                     /\ Remote("edits.deobfuscationfiles.upload", appEditId,
                               [deobfuscationFileType |-> "proguard",
                                apkVersionCode |-> result,
                                body |-> <<"file", inputs[1].mappingFile>>],
                               answer)
                     /\ store' = store
                     /\ IF answer.threw
                        THEN Throw(TransportError("edits.deobfuscationfiles.upload"),
                                   inputs, fs)
                        ELSE Continue("uploadDebugSymbolsFile")
       ELSE /\ NoRemote
            /\ Continue("uploadDebugSymbolsFile")
    /\ UNCHANGED <<tree, whatsNew, packager, config, inputs, appEditId, fileIndex, result, versionCodes,
                   downloadUrls, exported>>

\* the rest of uploadRelease, and the loop of uploadReleaseFiles around it
uploadDebugSymbolsFile ==
    /\ pc = "uploadDebugSymbolsFile"
    /\ LET pushed ==
               /\ versionCodes' = push(versionCodes, result[1])
               /\ result' = None
               /\ fileIndex' = fileIndex + 1
               /\ Continue(IF fileIndex < Len(inputs[1].releaseFiles)
                           THEN "uploadRelease"
                           ELSE "addReleasesToTrack")
           thrown(msg) ==
               /\ Throw(msg, inputs, fs)
               /\ UNCHANGED <<versionCodes, result, fileIndex>>
           data == IF isDirectory(inputs[1].debugSymbols)
                   THEN <<"zip", createDebugSymbolZipFile(tree, <<inputs[1].debugSymbols>>)>>
                   ELSE <<"file", inputs[1].debugSymbols>>
       IN  IF inputs[1].debugSymbols # ""
           THEN \E readable \in BOOLEAN :
                  IF ~readable
                  THEN /\ NoRemote
                       /\ thrown(Msg("ENOENT: no such file or directory, lstat",
                                     <<inputs[1].debugSymbols>>))
                  ELSE \E answer \in Answers({None}) :
                         /\ Remote("edits.deobfuscationfiles.upload", appEditId,
                                   [deobfuscationFileType |-> "nativeCode",
                                    apkVersionCode |-> result,
                                    body |-> data],
                                   answer)
                         /\ store' = store
                         /\ IF answer.threw
                            THEN thrown(TransportError("edits.deobfuscationfiles.upload"))
                            ELSE pushed
           ELSE /\ NoRemote
                /\ pushed
    /\ UNCHANGED <<tree, whatsNew, packager, config, inputs, appEditId, downloadUrls, exported>>

\* the fraction tested for truthiness: a fraction of 0 counts as absent
defaultStatus_truthyFraction(inp) ==
    IF inp.status = ""
    THEN IF inp.userFraction \notin {None, Some(0)} THEN "inProgress" ELSE "completed"
    ELSE inp.status

defaultStatus(inp) ==
    IF inp.status = ""
    THEN IF inp.userFraction # None THEN "inProgress" ELSE "completed"
    ELSE inp.status

DigitChars == <<"0", "1", "2", "3", "4", "5", "6", "7", "8", "9">>

\* Number.prototype.toString: the decimal digits of a version code
RECURSIVE toString(_)
toString(x) ==
    IF x < 10 THEN <<DigitChars[x + 1]>>
    ELSE toString(x \div 10) \o <<DigitChars[(x % 10) + 1]>>

\* versionCodes.filter(x => x != 0).map(x => x.toString())
versionCodeStrings(codes) ==
    LET kept == SelectSeq(codes, LAMBDA x : x # 0)
    IN  [i \in 1..Len(kept) |-> toString(kept[i])]

\* a release that carries only the version code of the last upload
releaseOf_lastCodeOnly(inp, codes) ==
    [userFraction |-> inp.userFraction,
     status |-> defaultStatus(inp),
     inAppUpdatePriority |-> inp.inAppUpdatePriority,
     releaseNotes |-> readLocalizedReleaseNotes(inp.whatsNewDirectory),
     versionCodes |-> IF codes = <<>> THEN <<>>
                      ELSE versionCodeStrings(<<codes[Len(codes)]>>)]

\* the filter drops the version codes up to 1 instead of the zero ones
releaseOf_filterOffByOne(inp, codes) ==
    [userFraction |-> inp.userFraction,
     status |-> defaultStatus(inp),
     inAppUpdatePriority |-> inp.inAppUpdatePriority,
     releaseNotes |-> readLocalizedReleaseNotes(inp.whatsNewDirectory),
     versionCodes |-> versionCodeStrings(SelectSeq(codes, LAMBDA x : x > 1))]

releaseOf(inp, codes) ==
    [userFraction |-> inp.userFraction,
     status |-> defaultStatus(inp),
     inAppUpdatePriority |-> inp.inAppUpdatePriority,
     releaseNotes |-> readLocalizedReleaseNotes(inp.whatsNewDirectory),
     versionCodes |-> versionCodeStrings(codes)]

\* the track-update call issued before the release notes are read
addReleasesToTrack_notesAfterUpdate ==
    /\ pc = "addReleasesToTrack"
    /\ \E readable \in (IF inputs[1].whatsNewDirectory # "" THEN BOOLEAN ELSE {TRUE}) :
         \E answer \in Answers({None}) :
           /\ Remote("edits.tracks.update", appEditId,
                     [track |-> inputs[1].track,
                      release |-> [releaseOf(inputs[1], versionCodes)
                                     EXCEPT !.releaseNotes = None]],
                     answer)
           /\ store' = store
           /\ IF ~readable
              THEN Throw(Msg("ENOENT: no such file or directory, scandir",
                             <<inputs[1].whatsNewDirectory>>), inputs, fs)
              ELSE IF answer.threw
                   THEN Throw(TransportError("edits.tracks.update"), inputs, fs)
                   ELSE Continue("commit")
    /\ UNCHANGED <<tree, whatsNew, packager, config, inputs, appEditId, fileIndex, result, versionCodes,
                   downloadUrls, exported>>

addReleasesToTrack ==
    /\ pc = "addReleasesToTrack"
    /\ \E readable \in (IF inputs[1].whatsNewDirectory # "" THEN BOOLEAN ELSE {TRUE}) :
         IF ~readable
         THEN /\ NoRemote
              /\ Throw(Msg("ENOENT: no such file or directory, scandir",
                           <<inputs[1].whatsNewDirectory>>), inputs, fs)
         ELSE \E answer \in Answers({None}) :
                /\ Remote("edits.tracks.update", appEditId,
                          [track |-> inputs[1].track,
                           release |-> releaseOf(inputs[1], versionCodes)],
                          answer)
                /\ store' = store
                /\ IF answer.threw
                   THEN Throw(TransportError("edits.tracks.update"), inputs, fs)
                   ELSE Continue("commit")
    /\ UNCHANGED <<tree, whatsNew, packager, config, inputs, appEditId, fileIndex, result, versionCodes,
                   downloadUrls, exported>>

testUrl(version) == <<"https://play.google.com/apps/test/", version>>

\* versionCodes.map(version => `https://play.google.com/apps/test/${packageName}/${version}`)
versionUrls(codes) == [i \in 1..Len(codes) |-> testUrl(codes[i])]

\* uploadToPlayStore: commit the edit and return the URLs of the version codes
commit ==
    /\ pc = "commit"
    /\ \E answer \in Answers(EditIds) :
         /\ Remote("edits.commit", appEditId, None, answer)
         /\ store' = store
         /\ CASE answer.threw ->
                   Throw(TransportError("edits.commit"), inputs, fs)
              [] ~answer.threw /\ commitHasNoId(answer.data) ->
                   Throw(Msg("Error status: statusText", <<"edits.commit">>), inputs, fs)
              [] OTHER ->
                   Return(versionUrls(versionCodes), inputs, fs)
    /\ UNCHANGED <<tree, whatsNew, packager, config, inputs, appEditId, fileIndex, result, versionCodes,
                   downloadUrls, exported>>

(***************************************************************************)
(* The internal-sharing path: one file per step of the loop in              *)
(* uploadToPlayStore.                                                       *)
(***************************************************************************)
uploadInternalSharingRelease ==
    /\ pc = "uploadInternalSharingRelease"
    /\ LET releaseFile == inputs[1].releaseFiles[fileIndex]
           op == IF endsWith(releaseFile, ApkSuffix)
                 THEN "internalappsharingartifacts.uploadapk"
                 ELSE "internalappsharingartifacts.uploadbundle"
           thrown(msg) ==
               /\ Throw(msg, inputs, fs)
               /\ UNCHANGED <<downloadUrls, exported, fileIndex>>
       IN  IF ~endsWith(releaseFile, ApkSuffix) /\ ~endsWith(releaseFile, AabSuffix)
           THEN /\ NoRemote
                /\ thrown(Msg("is invalid (missing or invalid file extension).",
                              releaseFile))
           ELSE \E answer \in Answers(DownloadUrlAnswers) :
                  /\ RemoteUpload(op, None, releaseFile, answer, {None, Some(<<>>)})
                  /\ CASE answer.threw -> thrown(TransportError(op))
                       [] ~answer.threw /\ hasNoDownloadUrl(answer.data) ->
                            thrown(Msg("Uploaded file has no download URL.", <<>>))
                       [] OTHER ->
                            LET urls == push(downloadUrls, answer.data[1])
                                last == fileIndex = Len(inputs[1].releaseFiles)
                            IN  /\ downloadUrls' = urls
                                /\ fileIndex' = fileIndex + 1
                                /\ exported' =
                                     [INTERNAL_SHARING_DOWNLOAD_URL |-> answer.data,
                                      INTERNAL_SHARING_DOWNLOAD_URLS |->
                                          IF last THEN Some(urls)
                                          ELSE exported.INTERNAL_SHARING_DOWNLOAD_URLS]
                                /\ IF last
                                   THEN Return(urls, inputs, fs)
                                   ELSE Continue("uploadInternalSharingRelease")
    /\ UNCHANGED <<tree, whatsNew, packager, config, inputs, appEditId, result, versionCodes>>

Next ==
    \/ getInputs
    \/ getClient
    \/ getOrCreateEdit
    \/ validateSelectedTrack
    \/ uploadRelease
    \/ uploadMappingFile
    \/ uploadDebugSymbolsFile
    \/ addReleasesToTrack
    \/ commit
    \/ uploadInternalSharingRelease

Spec == Init /\ [][Next]_vars

(***************************************************************************)
(* uploadToPlayStore is exported: it can be given any value of the type     *)
(* PublishInputs, in which status, userFraction and the paths are optional. *)
(* This specification starts at its call with such a value.                 *)
(***************************************************************************)
PublishInputs ==
    [authClient : {Some("client")},
     createdGoogleCredentialsFile : {FALSE},
     releaseFiles : GlobResults \ {<<>>},
     track : Tracks,
     inAppUpdatePriority : {Some(0)},
     userFraction : {None, Some(0), Some(25)},
     status : {"", "completed", "draft", "halted", "inProgress"},
     whatsNewDirectory : {"", "whatsnew"},
     mappingFile : {"", "mapping.txt"},
     existingEditId : ExistingEditIds,
     debugSymbols : {"", "symbols"}]

InitUpload ==
    /\ fs = ExistingPaths
    /\ tree = DefaultTree
    /\ whatsNew = DefaultWhatsNew
    /\ packager = NotPackaging
    /\ config = DefaultConfig
    /\ \E p \in PublishInputs :
         /\ inputs = Some(p)
         /\ pc = uploadToPlayStore(p)
    /\ calls = <<>>
    /\ lastAnswer = None
    /\ store = <<>>
    /\ appEditId = None
    /\ fileIndex = 1
    /\ result = None
    /\ versionCodes = <<>>
    /\ downloadUrls = <<>>
    /\ exported = [INTERNAL_SHARING_DOWNLOAD_URL |-> None,
                   INTERNAL_SHARING_DOWNLOAD_URLS |-> None]
    /\ outputs = None
    /\ failed = None
    /\ unhandled = None

NextUpload ==
    \/ getOrCreateEdit
    \/ validateSelectedTrack
    \/ uploadRelease
    \/ uploadMappingFile
    \/ uploadDebugSymbolsFile
    \/ addReleasesToTrack
    \/ commit
    \/ uploadInternalSharingRelease

SpecUpload == InitUpload /\ [][NextUpload]_vars

(***************************************************************************)
(* The packager applied to every directory tree of the bounds: a run on     *)
(* the changeset path with one artifact and a debugSymbols directory.       *)
(***************************************************************************)
ZipInputs ==
    [authClient |-> Some("client"),
     createdGoogleCredentialsFile |-> FALSE,
     releaseFiles |-> <<ApkFile>>,
     track |-> "production",
     inAppUpdatePriority |-> Some(0),
     userFraction |-> None,
     status |-> "completed",
     whatsNewDirectory |-> "",
     mappingFile |-> "",
     existingEditId |-> "edit0",
     debugSymbols |-> "symbols"]

InitZip ==
    /\ fs = ExistingPaths
    /\ tree \in Trees
    /\ whatsNew = DefaultWhatsNew
    /\ packager = NotPackaging
    /\ config = DefaultConfig
    /\ inputs = Some(ZipInputs)
    /\ pc = uploadToPlayStore(ZipInputs)
    /\ calls = <<>>
    /\ lastAnswer = None
    /\ store = <<>>
    /\ appEditId = None
    /\ fileIndex = 1
    /\ result = None
    /\ versionCodes = <<>>
    /\ downloadUrls = <<>>
    /\ exported = [INTERNAL_SHARING_DOWNLOAD_URL |-> None,
                   INTERNAL_SHARING_DOWNLOAD_URLS |-> None]
    /\ outputs = None
    /\ failed = None
    /\ unhandled = None

NextZip ==
    \/ getOrCreateEdit
    \/ validateSelectedTrack
    \/ uploadRelease
    \/ uploadMappingFile
    \/ uploadDebugSymbolsFile
    \/ addReleasesToTrack
    \/ commit

SpecZip == InitZip /\ [][NextZip]_vars

(***************************************************************************)
(* The release notes loader applied to every directory content of           *)
(* NoteNames: a run on the changeset path with one artifact and a           *)
(* whatsNewDirectory.                                                       *)
(***************************************************************************)
NotesInputs ==
    [authClient |-> Some("client"),
     createdGoogleCredentialsFile |-> FALSE,
     releaseFiles |-> <<ApkFile>>,
     track |-> "production",
     inAppUpdatePriority |-> Some(0),
     userFraction |-> None,
     status |-> "completed",
     whatsNewDirectory |-> "whatsnew",
     mappingFile |-> "",
     existingEditId |-> "edit0",
     debugSymbols |-> ""]

InitNotes ==
    /\ fs = ExistingPaths
    /\ tree = DefaultTree
    /\ whatsNew \in SUBSET NoteNames
    /\ packager = NotPackaging
    /\ config = DefaultConfig
    /\ inputs = Some(NotesInputs)
    /\ pc = uploadToPlayStore(NotesInputs)
    /\ calls = <<>>
    /\ lastAnswer = None
    /\ store = <<>>
    /\ appEditId = None
    /\ fileIndex = 1
    /\ result = None
    /\ versionCodes = <<>>
    /\ downloadUrls = <<>>
    /\ exported = [INTERNAL_SHARING_DOWNLOAD_URL |-> None,
                   INTERNAL_SHARING_DOWNLOAD_URLS |-> None]
    /\ outputs = None
    /\ failed = None
    /\ unhandled = None

NextNotes ==
    \/ getOrCreateEdit
    \/ validateSelectedTrack
    \/ uploadRelease
    \/ uploadMappingFile
    \/ uploadDebugSymbolsFile
    \/ addReleasesToTrack
    \/ commit

SpecNotes == InitNotes /\ [][NextNotes]_vars

(***************************************************************************)
(* The packager taken call by call, on directory trees that may hold        *)
(* symbolic links.  A link is an entry of kind "link" named LinkName; it    *)
(* points to ".", the directory that holds it, so every link closes a       *)
(* cycle.  packager.stack holds the loops of zipFileAddDirectory in         *)
(* progress, innermost last: the JSZip object the loop adds to (its root),  *)
(* the directory it lists and the names it has not yet come to.  The order  *)
(* in which readdirSync lists the names is the file system's; the loop      *)
(* takes any of the names left.  packager.visited are the directories       *)
(* listed so far, packager.entered counts the calls of zipFileAddDirectory. *)
(***************************************************************************)
LinkName == "loop"

\* the links that the directories of the tree `t` can hold
LinksIn(t) ==
    {Entry(Append(d.path, LinkName), "link") : d \in {x \in t : x.kind = "dir"}}

PackagerTrees == UNION {{t \cup links : links \in SUBSET LinksIn(t)} : t \in Trees}

\* readFileSync(path) follows a link: the link points to a directory, and
\* reading a directory fails with EISDIR
readFileSyncThrows(disk, path) == Entry(path, "link") \in disk

\* one call zipFileAddDirectory(root, dirPath, rootPath, isRootRoot) up to its
\* loop; `pk` is the packager at the call
zipFileAddDirectoryCall(disk, pk, root, dirPath, rootPath, isRootRoot) ==
    LET newRootPath == join(rootPath, dirPath)
        entered == [pk EXCEPT !.entered = @ + 1]
    IN  IF ~lstatIsDirectory(disk, newRootPath)
        THEN IF readFileSyncThrows(disk, newRootPath)
             THEN [entered EXCEPT !.pc = "threw", !.stack = <<>>]
             ELSE [entered EXCEPT !.files = zipFile(@, root, dirPath, newRootPath)]
        ELSE [entered EXCEPT
                !.files = IF isRootRoot THEN @ ELSE zipFolder(@, root, dirPath),
                !.visited = Append(@, newRootPath),
                !.stack = Append(@, [root |-> IF isRootRoot THEN root
                                              ELSE zipFolderRoot(root, dirPath),
                                     path |-> newRootPath,
                                     names |-> readdirSync(disk, newRootPath)])]

PackagerUnchanged ==
    UNCHANGED <<config, fs, tree, whatsNew, inputs, pc, calls, lastAnswer, store,
                appEditId, fileIndex, result, versionCodes, downloadUrls, exported,
                outputs, failed, unhandled>>

\* createDebugSymbolZipFile: the first call, on the debugSymbols path itself
await_createDebugSymbolZipFile ==
    /\ packager.pc = "createDebugSymbolZipFile"
    /\ packager' = zipFileAddDirectoryCall(
                       tree, [packager EXCEPT !.pc = "zipFileAddDirectory"],
                       <<>>, ".", <<inputs[1].debugSymbols>>, TRUE)
    /\ PackagerUnchanged

\* one turn of the innermost loop: the call for one of the names left
await_zipFileAddDirectory ==
    /\ packager.pc = "zipFileAddDirectory"
    /\ packager.stack # <<>>
    /\ LET top == Len(packager.stack)
           loop == packager.stack[top]
       IN  \E underPath \in loop.names :
             packager' = zipFileAddDirectoryCall(
                             tree,
                             [packager EXCEPT !.stack[top].names = @ \ {underPath}],
                             loop.root, underPath, loop.path, FALSE)
    /\ PackagerUnchanged

\* the innermost loop has come to its end: the call returns
return_zipFileAddDirectory ==
    /\ packager.pc = "zipFileAddDirectory"
    /\ packager.stack # <<>>
    /\ packager.stack[Len(packager.stack)].names = {}
    /\ packager' = [packager EXCEPT !.stack = SubSeq(@, 1, Len(@) - 1)]
    /\ PackagerUnchanged

\* createDebugSymbolZipFile: the first call has returned, the archive is generated
generateAsync ==
    /\ packager.pc = "zipFileAddDirectory"
    /\ packager.stack = <<>>
    /\ packager' = [packager EXCEPT !.pc = "returned"]
    /\ PackagerUnchanged

InitPackager ==
    /\ fs = ExistingPaths
    /\ tree \in PackagerTrees
    /\ whatsNew = DefaultWhatsNew
    /\ packager = [NotPackaging EXCEPT !.pc = "createDebugSymbolZipFile"]
    /\ config = DefaultConfig
    /\ inputs = Some(ZipInputs)
    /\ pc = "uploadDebugSymbolsFile"
    /\ calls = <<Call("edits.tracks.list", Some(ZipInputs.existingEditId), None),
                 Call("edits.apks.upload", Some(ZipInputs.existingEditId), ApkFile)>>
    /\ lastAnswer = Some([threw |-> FALSE, status |-> 200, data |-> Some(1)])
    /\ store = <<[file |-> ApkFile, assigned |-> 1]>>
    /\ appEditId = Some(ZipInputs.existingEditId)
    /\ fileIndex = 1
    /\ result = Some(1)
    /\ versionCodes = <<>>
    /\ downloadUrls = <<>>
    /\ exported = [INTERNAL_SHARING_DOWNLOAD_URL |-> None,
                   INTERNAL_SHARING_DOWNLOAD_URLS |-> None]
    /\ outputs = None
    /\ failed = None
    /\ unhandled = None

NextPackager ==
    \/ await_createDebugSymbolZipFile
    \/ await_zipFileAddDirectory
    \/ return_zipFileAddDirectory
    \/ generateAsync

\* every awaited call is resumed: a step that can be taken is taken
SpecPackager == InitPackager /\ [][NextPackager]_vars /\ WF_vars(NextPackager)

(***************************************************************************)
(* Vocabulary of the properties.                                            *)
(***************************************************************************)
Ops(cs) == [i \in 1..Len(cs) |-> cs[i].op]
IsPrefix(s, t) == Len(s) <= Len(t) /\ SubSeq(t, 1, Len(s)) = s
Positions(op) == {i \in 1..Len(calls) : calls[i].op = op}
UploadOps == {"edits.apks.upload", "edits.bundles.upload"}
ShareOps == {"internalappsharingartifacts.uploadapk",
             "internalappsharingartifacts.uploadbundle"}
ChangesetOps == {"edits.insert", "edits.tracks.list", "edits.tracks.update",
                 "edits.commit", "edits.deobfuscationfiles.upload"} \cup UploadOps
AfterValidationOps == {"edits.tracks.update", "edits.commit",
                       "edits.deobfuscationfiles.upload"} \cup UploadOps
Issued(ops) == \E i \in 1..Len(calls) : calls[i].op \in ops

ChangesetPath == inputs # None /\ inputs[1].track # "internalsharing"
SharingPath == inputs # None /\ inputs[1].track = "internalsharing"
Done == pc = "done"
Succeeded == Done /\ failed = None
Failed == Done /\ failed # None
\* nothing more happens: no step of the run is possible
Ended == Done /\ ~ENABLED Next

LastOp == calls[Len(calls)].op
Status2xx(answer) == answer.status \in 200..299
LocalErrorTexts ==
    {"ENOENT: no such file or directory, open",
     "ENOENT: no such file or directory, lstat",
     "ENOENT: no such file or directory, scandir",
     "Could not load the default credentials"}

\* the remote answered the last call with a success status and a complete body
LastCallSucceeded ==
    /\ calls # <<>>
    /\ ~lastAnswer[1].threw
    /\ Status2xx(lastAnswer[1])
    /\ CASE LastOp \in {"edits.insert", "edits.commit"} ->
              lastAnswer[1].data \notin {None, Some("")}
         [] LastOp = "edits.tracks.list" ->
              /\ lastAnswer[1].data # None
              /\ inputs[1].track \in lastAnswer[1].data[1]
         [] LastOp \in UploadOps -> lastAnswer[1].data \notin {None, Some(0)}
         [] LastOp \in ShareOps -> lastAnswer[1].data \notin {None, Some(<<>>)}
         [] OTHER -> TRUE

StoreCodes == [i \in 1..Len(store) |-> store[i].assigned]
\* the decimal text of n, for the version codes of the model (below 100)
DecimalText(n) ==
    CHOOSE t \in {<<a>> : a \in {"0", "1", "2", "3", "4", "5", "6", "7", "8", "9"}}
                 \cup {<<a, b>> : a \in {"1", "2", "3", "4", "5", "6", "7", "8", "9"},
                                  b \in {"0", "1", "2", "3", "4", "5", "6", "7", "8", "9"}} :
        LET value(c) == CASE c = "0" -> 0 [] c = "1" -> 1 [] c = "2" -> 2 [] c = "3" -> 3
                          [] c = "4" -> 4 [] c = "5" -> 5 [] c = "6" -> 6 [] c = "7" -> 7
                          [] c = "8" -> 8 [] c = "9" -> 9
        IN  n = IF Len(t) = 1 THEN value(t[1]) ELSE 10 * value(t[1]) + value(t[2])
StoreCodeStrings == [i \in 1..Len(store) |-> DecimalText(store[i].assigned)]
StoreFiles == [i \in 1..Len(store) |-> store[i].file]

C1_Scenario ==
    /\ ChangesetPath
    /\ inputs[1].existingEditId = ""
    /\ \A i \in 1..Len(inputs[1].releaseFiles) :
         inputs[1].releaseFiles[i] \in {ApkFile, AabFile}

C1_FileOps(releaseFile) ==
    <<IF releaseFile = ApkFile THEN "edits.apks.upload" ELSE "edits.bundles.upload">>
    \o (IF inputs[1].mappingFile # "" THEN <<"edits.deobfuscationfiles.upload">> ELSE <<>>)
    \o (IF inputs[1].debugSymbols # "" THEN <<"edits.deobfuscationfiles.upload">> ELSE <<>>)

RECURSIVE C1_FilesOps(_)
C1_FilesOps(files) ==
    IF files = <<>> THEN <<>>
    ELSE C1_FileOps(Head(files)) \o C1_FilesOps(Tail(files))

C1_ExpectedOps ==
    <<"edits.insert", "edits.tracks.list">>
    \o C1_FilesOps(inputs[1].releaseFiles)
    \o <<"edits.tracks.update", "edits.commit">>

(***************************************************************************)
(* C1.  On the changeset path with no existing edit id and only .apk/.aab   *)
(* files, the remote calls are, in this order and nothing else: one         *)
(* create-edit, one list-tracks, per file in input order its upload on the  *)
(* endpoint of its suffix followed by its configured attachments, one       *)
(* track-update carrying all n version codes, one commit.  While the run    *)
(* goes on the calls are a prefix of that list; a run whose remote calls    *)
(* all succeed (and whose local reads succeed) ends in success with n URLs. *)
(***************************************************************************)
C1_CallOrder ==
    C1_Scenario =>
      /\ IsPrefix(Ops(calls), C1_ExpectedOps)
      /\ Succeeded =>
           /\ Ops(calls) = C1_ExpectedOps
           /\ StoreFiles = inputs[1].releaseFiles
           /\ \A i \in Positions("edits.tracks.update") :
                calls[i].arg.release.versionCodes = StoreCodeStrings
           /\ Len(outputs[1].internalSharingDownloadUrls) = Len(inputs[1].releaseFiles)
      /\ (Failed /\ failed[1].text \notin LocalErrorTexts) => ~LastCallSucceeded

C1_Witness ==
    /\ C1_Scenario
    /\ Succeeded
    /\ Len(inputs[1].releaseFiles) = MaxFiles
    /\ inputs[1].mappingFile # ""
    /\ inputs[1].debugSymbols = "symbols"
    /\ Len(calls) = 4 + 3 * MaxFiles

(***************************************************************************)
(* C2.  On the internal-sharing path the only remote calls ever issued are  *)
(* share-upload-package / share-upload-bundle, the i-th call for the i-th   *)
(* artifact on the endpoint of its suffix; no changeset call is issued; a   *)
(* successful run returns one URL per artifact.                             *)
(***************************************************************************)
C2_OnlyShareUploads ==
    SharingPath =>
      /\ Len(calls) <= Len(inputs[1].releaseFiles)
      /\ \A i \in 1..Len(calls) :
           /\ calls[i].op \in ShareOps
           /\ calls[i].op \notin ChangesetOps
           /\ calls[i].editId = None
           /\ calls[i].arg = inputs[1].releaseFiles[i]
           /\ calls[i].arg = ApkFile =>
                calls[i].op = "internalappsharingartifacts.uploadapk"
           /\ calls[i].arg = AabFile =>
                calls[i].op = "internalappsharingartifacts.uploadbundle"
      /\ Succeeded =>
           /\ Len(calls) = Len(inputs[1].releaseFiles)
           /\ Len(outputs[1].internalSharingDownloadUrls) = Len(inputs[1].releaseFiles)

C2_Witness ==
    /\ SharingPath
    /\ Succeeded
    /\ Len(inputs[1].releaseFiles) >= 2
    /\ Len(calls) >= 2

C3_BadVersionCode ==
    /\ ChangesetPath
    /\ calls # <<>>
    /\ LastOp \in UploadOps
    /\ ~lastAnswer[1].threw
    /\ lastAnswer[1].data \in {None, Some(0)}

(***************************************************************************)
(* C3.  On the changeset path, an artifact upload that returns a zero or    *)
(* missing version code ends the run in error, and no track-update and no   *)
(* commit call is issued: the run has ended, so none follows either.        *)
(***************************************************************************)
C3_ZeroVersionCodeAborts ==
    C3_BadVersionCode =>
      /\ Failed
      /\ Ended
      /\ ~Issued({"edits.tracks.update", "edits.commit"})

C3_Witness ==
    /\ C3_BadVersionCode
    /\ lastAnswer[1].data = Some(0)
    /\ lastAnswer[1].status = 200
    /\ Len(store) >= 1
    /\ Failed

(***************************************************************************)
(* C4.  On full success the returned list has the length of the artifact    *)
(* list, and its i-th element is what the remote assigned to the i-th       *)
(* artifact: the URL of its version code on the changeset path, its         *)
(* download URL on the internal-sharing path.                               *)
(***************************************************************************)
C4_OrderPreserved ==
    Succeeded =>
      LET urls == outputs[1].internalSharingDownloadUrls
          files == inputs[1].releaseFiles
      IN  /\ Len(urls) = Len(files)
          /\ StoreFiles = files
          /\ \A i \in 1..Len(files) :
               urls[i] = IF SharingPath
                         THEN store[i].assigned
                         ELSE <<"https://play.google.com/apps/test/", store[i].assigned>>

C4_Witness ==
    /\ Succeeded
    /\ ChangesetPath
    /\ Len(inputs[1].releaseFiles) >= 2
    /\ store[1].assigned # store[2].assigned

C5_OtherInputsValid ==
    /\ config.serviceAccountJson # ""
    /\ config.releaseFile \notin {None, Some(<<>>)}
    /\ config.inAppUpdatePriority.kind = "number" => config.inAppUpdatePriority.v \in 0..5
    /\ config.whatsNewDirectory \in {""} \cup ExistingPaths
    /\ config.mappingFile \in {""} \cup ExistingPaths

RejectedBeforeRemote ==
    /\ Failed
    /\ inputs = None
    /\ calls = <<>>
    /\ lastAnswer = None

C5_Rule(status, present) ==
    \/ status \in {"completed", "draft"} /\ present
    \/ status \in {"halted", "inProgress"} /\ ~present

C6_MissingFraction ==
    /\ config.status \in {"inProgress", "halted"}
    /\ config.userFraction.kind # "number"

(***************************************************************************)
(* C6.  A request with status inProgress or halted and no rollout fraction  *)
(* ends the run with a configuration error (the one about the missing       *)
(* fraction when the other inputs are valid), and no remote call is issued  *)
(* and no authentication client obtained in that run.                       *)
(***************************************************************************)
C6_RejectedWithoutRemoteCall ==
    C6_MissingFraction =>
      /\ calls = <<>>
      /\ inputs = None
      /\ pc # "getInputs" =>
           /\ RejectedBeforeRemote
           /\ Ended
           /\ C5_OtherInputsValid =>
                failed = Some(Msg("Status requires a 'userFraction' to be set",
                                  <<config.status>>))

C6_Witness ==
    /\ C6_MissingFraction
    /\ config.status = "inProgress"
    /\ C5_OtherInputsValid
    /\ Failed

C7_BadTrackList ==
    /\ ChangesetPath
    /\ calls # <<>>
    /\ LastOp = "edits.tracks.list"
    /\ ~lastAnswer[1].threw
    /\ \/ ~Status2xx(lastAnswer[1])
       \/ lastAnswer[1].data = None
       \/ inputs[1].track \notin lastAnswer[1].data[1]

(***************************************************************************)
(* C7.  On the changeset path the list-tracks call is issued at most once,  *)
(* with the edit obtained (only create-edit can precede it), and before     *)
(* every artifact upload, attachment, track-update and commit; when its     *)
(* response is non-success, has no tracks, or lacks the requested track,    *)
(* the run fails and none of those calls is ever issued.                    *)
(***************************************************************************)
C7_TrackValidatedFirst ==
    /\ ChangesetPath =>
         /\ Cardinality(Positions("edits.tracks.list")) <= 1
         /\ \A j \in Positions("edits.tracks.list") :
              /\ calls[j].editId # None
              /\ calls[j].editId = appEditId
              /\ \A k \in 1..(j - 1) : calls[k].op = "edits.insert"
         /\ \A i \in 1..Len(calls) :
              calls[i].op \in AfterValidationOps =>
                \E j \in 1..(i - 1) : calls[j].op = "edits.tracks.list"
    /\ C7_BadTrackList =>
         /\ Failed
         /\ Ended
         /\ ~Issued(AfterValidationOps)

C7_Witness ==
    /\ C7_BadTrackList
    /\ lastAnswer[1].status = 200
    /\ lastAnswer[1].data = Some({"beta"})
    /\ Failed

(***************************************************************************)
(* C8.  On the changeset path: with a non-empty existing edit id no         *)
(* create-edit call is issued and every call carries the supplied id; with  *)
(* none supplied, the first call of the run is the create-edit call and it  *)
(* is the only one, and the run gets past obtaining the edit only with it.  *)
(***************************************************************************)
C8_EditReusedOrCreatedOnce ==
    ChangesetPath =>
      IF inputs[1].existingEditId # ""
      THEN /\ ~Issued({"edits.insert"})
           /\ appEditId \in {None, Some(inputs[1].existingEditId)}
           /\ \A i \in 1..Len(calls) :
                /\ calls[i].op \in ChangesetOps
                /\ calls[i].editId = Some(inputs[1].existingEditId)
      ELSE /\ calls # <<>> => Positions("edits.insert") = {1}
           /\ pc \notin {"getClient", "getOrCreateEdit", "done"} =>
                Positions("edits.insert") = {1}
           /\ Succeeded => Positions("edits.insert") = {1}

C8_Witness ==
    /\ ChangesetPath
    /\ inputs[1].existingEditId # ""
    /\ Succeeded
    /\ Len(calls) >= 4

C9_BadCreateEdit ==
    /\ ChangesetPath
    /\ calls # <<>>
    /\ LastOp = "edits.insert"
    /\ ~lastAnswer[1].threw
    /\ \/ ~Status2xx(lastAnswer[1])
       \/ lastAnswer[1].data \in {None, Some("")}

(***************************************************************************)
(* C9.  A create-edit call that returns a non-success status, or a body     *)
(* without an identifier, makes the run fail: the create-edit call is the   *)
(* only call of the run, and no edit was obtained.                          *)
(***************************************************************************)
C9_CreateEditFailureIsFatal ==
    C9_BadCreateEdit =>
      /\ Failed
      /\ Ended
      /\ Ops(calls) = <<"edits.insert">>
      /\ appEditId = None

C9_Witness ==
    /\ C9_BadCreateEdit
    /\ lastAnswer[1].status = 200
    /\ lastAnswer[1].data = None
    /\ Failed

C10_CommitAnswered ==
    /\ calls # <<>>
    /\ LastOp = "edits.commit"
    /\ ~lastAnswer[1].threw

(***************************************************************************)
(* C10.  The commit call is issued at most once, right after the            *)
(* track-update call has returned, and it is the last call of the run: the  *)
(* run has ended with it.  A commit response without an identifier makes    *)
(* the run fail whatever its status; one with an identifier makes it        *)
(* succeed.                                                                 *)
(***************************************************************************)
C10_CommitOnceAndLast ==
    /\ Cardinality(Positions("edits.commit")) <= 1
    /\ \A i \in Positions("edits.commit") :
         /\ i = Len(calls)
         /\ i > 1
         /\ calls[i - 1].op = "edits.tracks.update"
         /\ calls[i].editId = calls[i - 1].editId
         /\ Ended
    /\ pc = "commit" =>
         /\ calls # <<>>
         /\ LastOp = "edits.tracks.update"
         /\ ~lastAnswer[1].threw
    /\ C10_CommitAnswered =>
         IF lastAnswer[1].data = None
         THEN Failed /\ outputs = None
         ELSE Succeeded /\ outputs # None

C10_Witness ==
    /\ C10_CommitAnswered
    /\ lastAnswer[1].status = 200
    /\ lastAnswer[1].data = None
    /\ Failed

\* the attachments configured for every artifact, in the order of uploadRelease
C11_Attachments ==
    (IF inputs[1].mappingFile # "" THEN <<"proguard">> ELSE <<>>)
    \o (IF inputs[1].debugSymbols # "" THEN <<"nativeCode">> ELSE <<>>)

\* the first call after position p that belongs to a later stage of the run
C11_PipelineEnd(p) ==
    LET later == {q \in (p + 1)..Len(calls) :
                    calls[q].op \in UploadOps \cup {"edits.tracks.update"}}
    IN  IF later = {} THEN Len(calls) + 1
        ELSE CHOOSE q \in later : \A r \in later : q <= r

\* the attachment types of the calls issued in the pipeline of the upload at p
C11_AttachedAfter(p) ==
    [i \in 1..(C11_PipelineEnd(p) - p - 1) |->
        IF calls[p + i].op = "edits.deobfuscationfiles.upload"
        THEN calls[p + i].arg.deobfuscationFileType
        ELSE calls[p + i].op]

(***************************************************************************)
(* C11.  On the changeset path the artifacts are processed one after the    *)
(* other: the k-th upload call is for the k-th artifact; the calls between  *)
(* it and the next upload call (or the track-update) are exactly the        *)
(* configured attachments, mapping file first and diagnostic symbols        *)
(* second; the upload of an artifact is issued only when the pipelines of   *)
(* all earlier artifacts have completed; and whenever the run is about to   *)
(* issue a call, the call before it has returned: no two are outstanding.   *)
(***************************************************************************)
C11_Sequential ==
    ChangesetPath =>
      LET uploads == {p \in 1..Len(calls) : calls[p].op \in UploadOps}
      IN  /\ \A p \in uploads :
               LET k == Cardinality({q \in uploads : q <= p})
               IN  /\ k <= Len(inputs[1].releaseFiles)
                   /\ calls[p].arg = inputs[1].releaseFiles[k]
                   /\ IF C11_PipelineEnd(p) <= Len(calls)
                      THEN C11_AttachedAfter(p) = C11_Attachments
                      ELSE IsPrefix(C11_AttachedAfter(p), C11_Attachments)
          /\ pc = "uploadRelease" =>
               /\ Cardinality(uploads) = fileIndex - 1
               /\ Len(versionCodes) = fileIndex - 1
               /\ Len(store) = fileIndex - 1
               /\ result = None
               /\ \A p \in uploads :
                    C11_AttachedAfter(p) = C11_Attachments
          /\ (pc # "done" /\ calls # <<>>) =>
               /\ lastAnswer # None
               /\ ~lastAnswer[1].threw

C11_Witness ==
    /\ ChangesetPath
    /\ inputs[1].mappingFile # ""
    /\ inputs[1].debugSymbols # ""
    /\ pc = "uploadDebugSymbolsFile"
    /\ fileIndex = 2
    /\ Cardinality({p \in 1..Len(calls) : calls[p].op \in UploadOps}) = 2

\* a name that ends in neither suffix, told from the name itself
C12_Unclassifiable(releaseFile) ==
    /\ releaseFile[Len(releaseFile)] # "k" \/ releaseFile[Len(releaseFile) - 1] # "p"
       \/ releaseFile[Len(releaseFile) - 2] # "a" \/ releaseFile[Len(releaseFile) - 3] # "."
    /\ releaseFile[Len(releaseFile)] # "b" \/ releaseFile[Len(releaseFile) - 1] # "a"
       \/ releaseFile[Len(releaseFile) - 2] # "a" \/ releaseFile[Len(releaseFile) - 3] # "."

\* the run stands before the artifact at fileIndex, which cannot be classified
C12_Reached ==
    /\ pc \in {"uploadRelease", "uploadInternalSharingRelease"}
    /\ C12_Unclassifiable(inputs[1].releaseFiles[fileIndex])

(***************************************************************************)
(* C12.  On both paths an artifact whose name ends in neither .apk nor      *)
(* .aab is never skipped.  When the run reaches it, its next step ends the  *)
(* run with an error that names the file and issues no call; no upload      *)
(* call is ever made for such a file or for a file after it, no             *)
(* track-update and no commit is issued, and the run does not succeed.      *)
(***************************************************************************)
C12_InvalidFileAborts ==
    /\ [](inputs # None =>
            \A j \in 1..Len(inputs[1].releaseFiles) :
                C12_Unclassifiable(inputs[1].releaseFiles[j]) =>
                  /\ fileIndex <= j
                  /\ \A i \in 1..Len(calls) :
                       calls[i].op \in UploadOps \cup ShareOps =>
                         \A l \in j..Len(inputs[1].releaseFiles) :
                             calls[i].arg # inputs[1].releaseFiles[l]
                  /\ ~Issued({"edits.tracks.update", "edits.commit"})
                  /\ ~Succeeded
                  /\ outputs = None)
    /\ [][C12_Reached =>
            /\ pc' = "done"
            /\ failed' # None
            /\ failed'[1].about = inputs[1].releaseFiles[fileIndex]
            /\ failed'[1].text \in {"is invalid",
                                    "is invalid (missing or invalid file extension)."}
            /\ calls' = calls
            /\ outputs' = None]_vars

C12_Witness ==
    /\ ChangesetPath
    /\ Failed
    /\ failed[1].text = "is invalid"
    /\ fileIndex = 2
    /\ Len(store) = 1

(***************************************************************************)
(* C13.  As claimed: when the run ends with the error about an artifact     *)
(* that is neither .apk nor .aab, no remote call (create-edit, list-tracks, *)
(* upload of an earlier artifact, share-upload) has been issued.            *)
(***************************************************************************)
C13_DetectedBeforeAnyCall ==
    (/\ Failed
     /\ failed[1].text \in {"is invalid",
                            "is invalid (missing or invalid file extension)."}) =>
      /\ calls = <<>>
      /\ store = <<>>

C14_NoDownloadUrl ==
    /\ SharingPath
    /\ calls # <<>>
    /\ ~lastAnswer[1].threw
    /\ lastAnswer[1].data \in {None, Some(<<>>)}

(***************************************************************************)
(* C14.  On the internal-sharing path a share-upload answered with an       *)
(* empty or missing download URL ends the run with the error about the      *)
(* missing URL: the answered call is the one of the artifact the run was    *)
(* at, the run has ended so no later artifact is uploaded, and no list of   *)
(* URLs is returned, set as output or exported.                             *)
(***************************************************************************)
C14_EmptyUrlIsFatal ==
    C14_NoDownloadUrl =>
      /\ Failed
      /\ Ended
      /\ failed = Some(Msg("Uploaded file has no download URL.", <<>>))
      /\ Len(calls) = fileIndex
      /\ calls[fileIndex].arg = inputs[1].releaseFiles[fileIndex]
      /\ Len(downloadUrls) = fileIndex - 1
      /\ outputs = None
      /\ exported.INTERNAL_SHARING_DOWNLOAD_URLS = None

C14_Witness ==
    /\ C14_NoDownloadUrl
    /\ lastAnswer[1].data = Some(<<>>)
    /\ lastAnswer[1].status = 200
    /\ Len(inputs[1].releaseFiles) = 2
    /\ fileIndex = 1
    /\ Failed

(***************************************************************************)
(* C15.  In every reachable state, the version codes carried by a           *)
(* track-update call that was issued contain no zero, and they are, in      *)
(* order, the version codes that the uploads of the run's artifacts         *)
(* returned (as decimal text), one per artifact.                            *)
(***************************************************************************)
C15_VersionCodesOfTrackUpdate ==
    \A i \in Positions("edits.tracks.update") :
        LET codes == calls[i].arg.release.versionCodes
        IN  /\ \A k \in 1..Len(codes) : codes[k] # <<"0">>
            /\ codes = StoreCodeStrings
            /\ Len(codes) = Len(inputs[1].releaseFiles)
            /\ StoreFiles = inputs[1].releaseFiles
            /\ StoreCodes = versionCodes

C15_Witness ==
    /\ Issued({"edits.tracks.update"})
    /\ Len(store) = 2
    /\ store[1].assigned = 2
    /\ store[2].assigned = 1

(***************************************************************************)
(* C16.  Every track-update call that is issued carries 'inProgress' when   *)
(* no status was given and a rollout fraction is present (a fraction of 0   *)
(* included), 'completed' when no status and no fraction was given, and     *)
(* exactly the given status otherwise; the fraction is passed on as given.  *)
(***************************************************************************)
C16_StatusOfTrackUpdate ==
    \A i \in Positions("edits.tracks.update") :
        LET release == calls[i].arg.release
        IN  /\ release.userFraction = inputs[1].userFraction
            /\ inputs[1].status = "" /\ inputs[1].userFraction # None =>
                 release.status = "inProgress"
            /\ inputs[1].status = "" /\ inputs[1].userFraction = None =>
                 release.status = "completed"
            /\ inputs[1].status # "" => release.status = inputs[1].status

C16_Witness ==
    /\ Issued({"edits.tracks.update"})
    /\ inputs[1].status = ""
    /\ inputs[1].userFraction = Some(0)
    /\ calls[Len(calls)].op = "edits.commit"
    /\ calls[Len(calls) - 1].arg.release.status = "inProgress"

(***************************************************************************)
(* C17.  As claimed: whenever the last remote call of the run (create-edit, *)
(* list-tracks, artifact upload, attachment, track-update, commit or        *)
(* share-upload) returned a non-success status, the run has ended in error, *)
(* so that no later call is issued.                                         *)
(***************************************************************************)
C17_NonSuccessIsFatal ==
    (/\ calls # <<>>
     /\ ~lastAnswer[1].threw
     /\ ~Status2xx(lastAnswer[1])) =>
      /\ Failed
      /\ Ended

(***************************************************************************)
(* C18.  As claimed: in a run that has ended with an error, nothing about   *)
(* an artifact already uploaded has been reported: no action output is set  *)
(* and no environment variable is exported.                                 *)
(***************************************************************************)
C18_NoPartialReporting ==
    Failed =>
      /\ outputs = None
      /\ exported.INTERNAL_SHARING_DOWNLOAD_URL = None
      /\ exported.INTERNAL_SHARING_DOWNLOAD_URLS = None

(***************************************************************************)
(* C19.  As claimed: a run that has ended is in exactly one of two          *)
(* outcomes, the path completed with the outputs set and no failure         *)
(* reported, or one error reported through setFailed and no outputs set;    *)
(* no other error comes out of the run.                                     *)
(***************************************************************************)
C19_ExactlyOneOutcome ==
    Done =>
      /\ \/ failed = None /\ outputs # None
         \/ failed # None /\ outputs = None
      /\ unhandled = None

\* the path of an entry relative to the directory, its names joined by "/"
RECURSIVE C20_RelativePath(_)
C20_RelativePath(names) ==
    IF Len(names) = 1 THEN names
    ELSE <<Head(names), "/">> \o C20_RelativePath(Tail(names))

C20_RegularFiles == {e \in tree : e.kind = "file"}

C20_ZipCalls ==
    {i \in 1..Len(calls) :
        /\ calls[i].op = "edits.deobfuscationfiles.upload"
        /\ calls[i].arg.deobfuscationFileType = "nativeCode"
        /\ calls[i].arg.body[1] = "zip"}

(***************************************************************************)
(* C20.  For every directory tree rooted at the debugSymbols directory d,   *)
(* the file members of the archive that is uploaded are exactly the         *)
(* regular files under d, each named by its path relative to d (a.txt,      *)
(* sub/b.txt) and holding the content of that file, at any depth, with no   *)
(* folder level for d itself; the folder members are the directories        *)
(* under d.                                                                 *)
(***************************************************************************)
C20_ArchiveMembers ==
    \A i \in C20_ZipCalls :
        LET archive == calls[i].arg.body[2]
        IN  /\ {[name |-> m.name, data |-> m.data] : m \in {x \in archive : ~x.dir}}
               = {[name |-> C20_RelativePath(SubSeq(e.path, 2, Len(e.path))),
                   data |-> e.path] : e \in C20_RegularFiles}
            /\ \A m \in archive : m.name[1] \notin {"symbols", ".", "/"}
            /\ Cardinality({x \in archive : ~x.dir}) = Cardinality(C20_RegularFiles)

C20_Witness ==
    /\ C20_ZipCalls # {}
    /\ Entry(<<"symbols", "a.txt">>, "file") \in tree
    /\ Entry(<<"symbols", "sub", "b.txt">>, "file") \in tree
    /\ Entry(<<"symbols", "sub", "sub">>, "dir") \in tree
    /\ Succeeded

\* the locale of an entry named 'whatsnew-<locale>': what follows the nine
\* characters of 'whatsnew-' at the start of the name, <<>> for any other name
C21_Locale(name) ==
    IF /\ Len(name) >= 9
       /\ name[1] = "w" /\ name[2] = "h" /\ name[3] = "a" /\ name[4] = "t"
       /\ name[5] = "s" /\ name[6] = "n" /\ name[7] = "e" /\ name[8] = "w"
       /\ name[9] = "-"
    THEN [i \in 1..(Len(name) - 9) |-> name[i + 9]]
    ELSE <<>>

(***************************************************************************)
(* C21.  As claimed: the release notes carried by a track-update are        *)
(* exactly one entry per directory entry named 'whatsnew-<locale>' with a   *)
(* non-empty locale, its language being the locale and its text the         *)
(* content of that file; the other entries contribute nothing; an empty     *)
(* directory gives the empty list.                                          *)
(***************************************************************************)
C21_OneEntryPerLocaleFile ==
    \A i \in Positions("edits.tracks.update") :
        inputs[1].whatsNewDirectory # "" =>
          /\ calls[i].arg.release.releaseNotes # None
          /\ calls[i].arg.release.releaseNotes[1] =
               {[language |-> C21_Locale(name),
                 text |-> <<"text of", inputs[1].whatsNewDirectory, name>>] :
                  name \in {n \in whatsNew : C21_Locale(n) # <<>>}}

\* what core.setOutput writes for an output of the run: a string as it is,
\* a list as its JSON text, nothing as the empty string
C22_Written(name) ==
    IF name = "internalSharingDownloadUrls"
    THEN [kind |-> "json", v |-> outputs[1].internalSharingDownloadUrls]
    ELSE IF outputs[1].internalSharingDownloadUrl = None
         THEN [kind |-> "text", v |-> <<>>]
         ELSE [kind |-> "text", v |-> outputs[1].internalSharingDownloadUrl[1]]

\* the URLs of the uploaded release files, from what the store assigned
C22_Urls ==
    [i \in 1..Len(store) |->
        IF SharingPath THEN store[i].assigned
        ELSE <<"https://play.google.com/apps/test/", store[i].assigned>>]

(***************************************************************************)
(* C22.  As claimed, after action.yml: on a successful run the output       *)
(* internalSharingDownloadUrl is the JSON list of the URLs of every         *)
(* uploaded release file, and the output internalSharingDownloadUrls is     *)
(* the URL of the last one.                                                 *)
(***************************************************************************)
C22_OutputsAsDocumented ==
    Succeeded =>
      /\ C22_Written("internalSharingDownloadUrl").kind = "json"
      /\ C22_Written("internalSharingDownloadUrl").v = C22_Urls
      /\ C22_Written("internalSharingDownloadUrls").kind = "text"
      /\ C22_Written("internalSharingDownloadUrls").v = C22_Urls[Len(C22_Urls)]

C23_Attachments == Positions("edits.deobfuscationfiles.upload")

\* the number of artifact uploads issued up to position i
C23_UploadsUpTo(i) ==
    Cardinality({p \in 1..i : calls[p].op \in UploadOps})

(***************************************************************************)
(* C23.  Every attachment call carries the version code that the upload     *)
(* of its artifact, the last upload before it, returned; and every call of  *)
(* the changeset path other than create-edit carries one and the same edit  *)
(* id, the one supplied, or else the one the create-edit call returned.     *)
(***************************************************************************)
C23_VersionCodeAndEditId ==
    /\ \A i \in C23_Attachments :
         LET k == C23_UploadsUpTo(i)
         IN  /\ k >= 1
             /\ k <= Len(store)
             /\ store[k].file = inputs[1].releaseFiles[k]
             /\ calls[i].arg.apkVersionCode = Some(store[k].assigned)
    /\ ChangesetPath =>
         /\ \A i \in 1..Len(calls) :
              IF calls[i].op = "edits.insert"
              THEN calls[i].editId = None
              ELSE /\ appEditId # None
                   /\ calls[i].editId = appEditId
         /\ hasExistingEditId(inputs[1]) /\ appEditId # None =>
              appEditId = Some(inputs[1].existingEditId)
         /\ (/\ calls # <<>>
             /\ LastOp = "edits.insert"
             /\ appEditId # None) => appEditId = lastAnswer[1].data

C23_Witness ==
    /\ ChangesetPath
    /\ inputs[1].existingEditId = ""
    /\ Succeeded
    /\ Cardinality(C23_Attachments) = 4
    /\ store[1].assigned # store[2].assigned

C24_AttachmentsOfType(type) ==
    {i \in Positions("edits.deobfuscationfiles.upload") :
        calls[i].arg.deobfuscationFileType = type}

(***************************************************************************)
(* C24.  On the changeset path a mapping attachment is issued only when a   *)
(* mapping file is configured and a diagnostic attachment only when a       *)
(* debugSymbols path is configured, and every artifact whose pipeline has   *)
(* completed got one call of each configured kind: with neither configured  *)
(* no attachment call is issued.  The mapping attachment sends the mapping  *)
(* file; the diagnostic attachment sends the packaged archive of the        *)
(* directory when the path is a directory, and the raw file when it is a    *)
(* single file.                                                             *)
(***************************************************************************)
C24_AttachmentsAsConfigured ==
    ChangesetPath =>
      LET mappings == C24_AttachmentsOfType("proguard")
          symbols == C24_AttachmentsOfType("nativeCode")
          completed == Len(versionCodes)
      IN  /\ mappings \cup symbols = Positions("edits.deobfuscationfiles.upload")
          /\ IF inputs[1].mappingFile = ""
             THEN mappings = {}
             ELSE /\ Cardinality(mappings) \in {completed, completed + 1}
                  /\ \A i \in mappings :
                       calls[i].arg.body = <<"file", inputs[1].mappingFile>>
          /\ IF inputs[1].debugSymbols = ""
             THEN symbols = {}
             ELSE /\ Cardinality(symbols) \in {completed, completed + 1}
                  /\ \A i \in symbols :
                       IF inputs[1].debugSymbols \in Directories
                       THEN /\ calls[i].arg.body[1] = "zip"
                            /\ {m.data : m \in {x \in calls[i].arg.body[2] : ~x.dir}}
                               = {e.path : e \in {x \in tree : x.kind = "file"}}
                       ELSE /\ calls[i].arg.body[1] = "file"
                            /\ calls[i].arg.body[2] = inputs[1].debugSymbols

C24_Witness ==
    /\ ChangesetPath
    /\ Succeeded
    /\ inputs[1].mappingFile = ""
    /\ inputs[1].debugSymbols = "symbols"
    /\ Cardinality(C24_AttachmentsOfType("nativeCode")) = 2

\* no operation of the run is issued more often than the run has use for it
C25_AtMostOnce ==
    /\ \A op \in {"edits.insert", "edits.tracks.list", "edits.tracks.update",
                  "edits.commit"} : Cardinality(Positions(op)) <= 1
    /\ inputs # None =>
         LET uploads == {i \in 1..Len(calls) : calls[i].op \in UploadOps \cup ShareOps}
         IN  /\ Cardinality(uploads) <= Len(inputs[1].releaseFiles)
             /\ \A i \in uploads :
                  calls[i].arg =
                    inputs[1].releaseFiles[Cardinality({j \in uploads : j <= i})]
             /\ \A type \in {"proguard", "nativeCode"} :
                  \A i, j \in C24_AttachmentsOfType(type) :
                      C23_UploadsUpTo(i) = C23_UploadsUpTo(j) => i = j

\* the last call was rejected by the transport or answered with a non-success status
C25_LastCallFailed ==
    /\ calls # <<>>
    /\ \/ lastAnswer[1].threw
       \/ ~Status2xx(lastAnswer[1])

(***************************************************************************)
(* C25.  As claimed: no remote call is retried.  create-edit, list-tracks,  *)
(* track-update and commit are each issued at most once, each artifact gets *)
(* at most one upload call and at most one attachment call of each kind,    *)
(* and once a call has failed (it was rejected or answered with a           *)
(* non-success status) no further remote call is issued.                    *)
(***************************************************************************)
C25_NeverRetried ==
    /\ [](C25_AtMostOnce)
    /\ [][C25_LastCallFailed => calls' = calls]_vars

\* the run was ended by the local read error `text`
C26_EndedBy(text) == failed # None /\ failed[1].text = text

(***************************************************************************)
(* C26.  A read error on the mapping file, on the debugSymbols path or on   *)
(* the release notes ends the run in error: run() is over, the error is     *)
(* the one reported, and no commit call was issued.  After a mapping or     *)
(* debugSymbols read error no track-update call was issued either; after a  *)
(* release-notes read error the track-update call was not issued although   *)
(* every artifact had been uploaded.                                        *)
(***************************************************************************)
C26_LocalReadErrorIsFatal ==
    /\ \A text \in {"ENOENT: no such file or directory, open",
                    "ENOENT: no such file or directory, lstat",
                    "ENOENT: no such file or directory, scandir"} :
         C26_EndedBy(text) =>
           /\ Done
           /\ outputs = None
           /\ ~Issued({"edits.commit"})
           /\ ~Issued({"edits.tracks.update"})
    /\ C26_EndedBy("ENOENT: no such file or directory, open") =>
         /\ failed[1].about = <<inputs[1].mappingFile>>
         /\ LastOp \in UploadOps
    /\ C26_EndedBy("ENOENT: no such file or directory, lstat") =>
         /\ failed[1].about = <<inputs[1].debugSymbols>>
         /\ Len(versionCodes) < Len(inputs[1].releaseFiles)
    /\ C26_EndedBy("ENOENT: no such file or directory, scandir") =>
         /\ failed[1].about = <<inputs[1].whatsNewDirectory>>
         /\ Len(versionCodes) = Len(inputs[1].releaseFiles)
         /\ \A k \in 1..Len(inputs[1].releaseFiles) :
              \E i \in 1..Len(calls) :
                  /\ calls[i].op \in UploadOps
                  /\ calls[i].arg = inputs[1].releaseFiles[k]

C26_Witness ==
    /\ C26_EndedBy("ENOENT: no such file or directory, scandir")
    /\ Len(inputs[1].releaseFiles) = 2
    /\ Cardinality(C24_AttachmentsOfType("proguard")) = 2

(***************************************************************************)
(* C27.  As claimed: when getInputs wrote the service-account credentials   *)
(* file (createdGoogleCredentialsFile is true), then at the end of the run, *)
(* whether it succeeded or failed, that file is no longer on disk and the   *)
(* cleanup step has raised no error.                                        *)
(***************************************************************************)
C27_CredentialsFileRemoved ==
    (/\ Done
     /\ inputs # None
     /\ inputs[1].createdGoogleCredentialsFile) =>
      /\ ServiceAccountFile \notin fs
      /\ unhandled = None

C28_RealDirectories == {e.path : e \in {x \in tree : x.kind = "dir"}}
C28_Links == {e.path : e \in {x \in tree : x.kind = "link"}}
C28_Visited == {packager.visited[i] : i \in 1..Len(packager.visited)}
C28_Over == packager.pc \in {"returned", "threw"}

\* no path is listed that lstat does not report as a directory, none is listed
\* twice, and there are no more calls than the tree has entries
C28_NoLinkTraversed ==
    /\ C28_Visited \subseteq C28_RealDirectories
    /\ \A i, j \in 1..Len(packager.visited) :
         packager.visited[i] = packager.visited[j] => i = j
    /\ packager.entered <= Cardinality(tree)

(***************************************************************************)
(* C28, as claimed: on every tree, links that close cycles included, the    *)
(* packager comes to an end, it lists no link and no directory twice, and   *)
(* at its end every real directory has been listed exactly once.            *)
(***************************************************************************)
C28_Original ==
    /\ <>C28_Over
    /\ [](C28_NoLinkTraversed)
    /\ [](C28_Over => C28_Visited = C28_RealDirectories)

(***************************************************************************)
(* C28, amended: on every tree, links that close cycles included, the       *)
(* packager comes to an end, and it lists no link and no directory twice.   *)
(* It returns an archive exactly on the trees without links, and then every *)
(* real directory has been listed exactly once; on a tree with a link it    *)
(* ends in the error of reading the link, with the directories not yet      *)
(* reached left unlisted.                                                   *)
(***************************************************************************)
C28_Terminates ==
    /\ <>C28_Over
    /\ [](C28_NoLinkTraversed)
    /\ [](packager.pc = "returned" =>
            /\ C28_Links = {}
            /\ C28_Visited = C28_RealDirectories)
    /\ [](packager.pc = "threw" => C28_Links # {})

C28_Witness ==
    /\ packager.pc = "threw"
    /\ Entry(<<"symbols", "sub", LinkName>>, "link") \in tree
    /\ Entry(<<"symbols", "sub", "sub">>, "dir") \in tree
    /\ Len(packager.visited) = 2

====
